---- MODULE Spec2Model ----
(***************************************************************************)
(* A model of semafor's frame-semantic parse scorer,                       *)
(* src/main/python/semafor/scoring/frameparseval.py:                       *)
(*   - Span: a union of index ranges (the list _s of slices);              *)
(*   - PRCounter: the table of precision/recall rows and its merge;        *)
(*   - score_sentence and the helpers that index a sentence by span;       *)
(*   - the __main__ loop that merges the sentence tables.                  *)
(* A Span object is modelled by its list _s, a sequence of <<start, stop>> *)
(* pairs; a Python set by a set; a dict by a function; a Counter by a      *)
(* function on the keys seen so far.  The derived ratio columns P, R, F    *)
(* and Acc of a PRCounter row are functions of its count columns and are   *)
(* not stored.                                                             *)
(***************************************************************************)
EXTENDS Integers, Sequences, FiniteSets, TLC

VARIABLES
    span_pc,    \* position of the Span scenario: "new", "that", "ops"
    span_self,  \* the Span under construction / constructed: [exc, s]
    span_that,  \* the second operand of the binary Span methods
    span_ret,   \* the last Span method called and what it returned
    pr_pc,      \* position of the PRCounter scenario
    me,         \* a PRCounter's table _df: row label -> row of counts
    you,        \* a second PRCounter's table
    new_df,     \* the table of the PRCounter that me + you returned
    pr_last,    \* the last __setitem__ call: its key, value and outcome
    sent_pc,    \* position of the one-sentence scenario: "new", "read", "scored"
    sent_gold,  \* the gold sentence handed to score_sentence
    sent_pred,  \* the predicted sentence handed to score_sentence
    sent_out,   \* what score_sentence did: exception, table, errors, locals
    drv_pc,     \* position of the __main__ loop: "loop", "done", "raised"
    scores,     \* the running total: <<>> for None, else <<table>>
    all_errors, \* the error inventory {'miss': Counter(), 'extra': Counter()}
    history     \* the tables score_sentence returned so far, in input order

spanVars == <<span_pc, span_self, span_that, span_ret>>
prVars == <<pr_pc, me, you, new_df, pr_last>>
sentVars == <<sent_pc, sent_gold, sent_pred, sent_out>>
drvVars == <<drv_pc, scores, all_errors, history>>
vars == <<spanVars, prVars, sentVars, drvVars>>

(***************************************************************************)
(* Bounds.                                                                 *)
(***************************************************************************)
\* indices of Span scenario arguments are drawn from 0..MaxIdx
MaxIdx == 3
\* the Span constructor is called with at most 2*MaxRanges arguments
MaxRanges == 2
\* the total N handed to PRCounter.__setitem__ is drawn from -1..MaxN
MaxN == 3
\* a gold sentence has 0..MaxTokens tokens
MaxTokens == 2
\* a sentence pair carries at most MaxAnnotations annotations in all: gold
\* frames, predicted frames, 'wsl' entries and 'ner' entries
MaxAnnotations == 2
\* the input files of the __main__ loop hold at most MaxSentences line pairs
MaxSentences == 2

(***************************************************************************)
(* Span                                                                    *)
(***************************************************************************)
\* range(start, stop): empty when start >= stop
PyRange(start, stop) == {i \in start..(stop - 1) : TRUE}

\* set(self): the indices __iter__ chains together, range by range
IndexSet(s) == UNION {PyRange(s[i][1], s[i][2]) : i \in DOMAIN s}

\* Span.overlaps
overlaps(self, that) == (IndexSet(that) \cap IndexSet(self)) # {}

\* Span.encompasses
encompasses(self, that) == IndexSet(that) \subseteq IndexSet(self)

\* Span.overlaps_partially
overlaps_partially(self, that) ==
    /\ (IndexSet(that) \ IndexSet(self)) # {}
    /\ (IndexSet(self) \ IndexSet(that)) # {}

\* Span.__len__
SpanLen(self) == Cardinality(IndexSet(self))

\* Span.minstart
minstart(self) ==
    CHOOSE m \in {self[i][1] : i \in DOMAIN self} :
        \A i \in DOMAIN self : m <= self[i][1]

\* Span.maxstop
maxstop(self) ==
    CHOOSE m \in {self[i][2] : i \in DOMAIN self} :
        \A i \in DOMAIN self : m >= self[i][2]

\* Span.contiguous
contiguous(self) == maxstop(self) - minstart(self) = SpanLen(self)

\* Span.__lt__
SpanLt(self, that) ==
    \/ minstart(self) < minstart(that)
    \/ maxstop(self) < maxstop(that)

\* Span.__eq__: the lists of slices are equal
SpanEq(self, that) == self = that

\* zip(args[::2], args[1::2])
ZipPairs(args) ==
    [i \in 1..(Len(args) \div 2) |-> <<args[2 * i - 1], args[2 * i]>>]

\* tuple comparison used by sorted()
PairLt(p, q) == p[1] < q[1] \/ (p[1] = q[1] /\ p[2] < q[2])

RECURSIVE InsertPair(_, _)
InsertPair(p, sorted) ==
    IF sorted = <<>> THEN <<p>>
    ELSE IF PairLt(p, Head(sorted)) THEN <<p>> \o sorted
    ELSE <<Head(sorted)>> \o InsertPair(p, Tail(sorted))

\* sorted(...) of a list of pairs
RECURSIVE SortedPairs(_)
SortedPairs(pairs) ==
    IF pairs = <<>> THEN <<>>
    ELSE InsertPair(Head(pairs), SortedPairs(Tail(pairs)))

\* the constructor's loop over the sorted pairs; s is self._s so far
RECURSIVE SpanLoop(_, _, _)
SpanLoop(s, rest, first) ==
    IF rest = <<>> THEN [exc |-> FALSE, s |-> s]
    ELSE LET start == Head(rest)[1]
             stop == Head(rest)[2]
         IN  IF first
             THEN SpanLoop(Append(s, <<start, stop>>), Tail(rest), FALSE)
             ELSE IF overlaps(s, <<<<start, stop>>>>)
             THEN [exc |-> TRUE, s |-> <<>>]
             ELSE IF s[Len(s)][2] = start
             THEN SpanLoop([s EXCEPT ![Len(s)] = <<s[Len(s)][1], stop>>],
                           Tail(rest), FALSE)
             ELSE SpanLoop(Append(s, <<start, stop>>), Tail(rest), FALSE)

\* Span.__init__(*args): [exc |-> TRUE] when it raises, else the list _s
SpanInit(args) ==
    IF args = <<>> \/ Len(args) % 2 # 0
    THEN [exc |-> TRUE, s |-> <<>>]
    ELSE SpanLoop(<<>>, SortedPairs(ZipPairs(args)), TRUE)

\* Span.subspans, each subspan by its list _s
subspans(self) == [i \in DOMAIN self |-> SpanInit(self[i]).s]

(***************************************************************************)
(* The Span scenario: construct a Span from any argument list, construct a *)
(* second one from one pair, call the methods.                             *)
(***************************************************************************)
NoSpan == [exc |-> FALSE, s |-> <<>>]
NoRet == [op |-> "none", val |-> FALSE]

RECURSIVE SeqsUpTo(_, _)
SeqsUpTo(S, n) ==
    IF n = 0 THEN {<<>>}
    ELSE LET shorter == SeqsUpTo(S, n - 1)
         IN  shorter \cup {Append(q, x) : q \in {r \in shorter : Len(r) = n - 1}, x \in S}

SpanArgLists == SeqsUpTo(0..MaxIdx, 2 * MaxRanges)

SpanStart ==
    /\ span_pc = "new"
    /\ span_self = NoSpan
    /\ span_that = NoSpan
    /\ span_ret = NoRet

SpanNew ==
    /\ span_pc = "new"
    /\ \E args \in SpanArgLists :
        /\ span_self' = SpanInit(args)
        /\ span_pc' = IF SpanInit(args).exc THEN "raised" ELSE "that"
    /\ UNCHANGED <<span_that, span_ret, prVars, sentVars, drvVars>>

SpanNewThat ==
    /\ span_pc = "that"
    /\ \E start \in 0..MaxIdx, stop \in 0..MaxIdx :
        span_that' = SpanInit(<<start, stop>>)
    /\ span_pc' = "ops"
    /\ UNCHANGED <<span_self, span_ret, prVars, sentVars, drvVars>>

SpanCallLt ==
    /\ span_pc = "ops"
    /\ span_ret' = [op |-> "lt", val |-> SpanLt(span_self.s, span_that.s)]
    /\ UNCHANGED <<span_pc, span_self, span_that, prVars, sentVars, drvVars>>

SpanCallOverlapsPartially ==
    /\ span_pc = "ops"
    /\ span_ret' = [op |-> "overlaps_partially",
                    val |-> overlaps_partially(span_self.s, span_that.s)]
    /\ UNCHANGED <<span_pc, span_self, span_that, prVars, sentVars, drvVars>>

SpanCallOverlaps ==
    /\ span_pc = "ops"
    /\ span_ret' = [op |-> "overlaps", val |-> overlaps(span_self.s, span_that.s)]
    /\ UNCHANGED <<span_pc, span_self, span_that, prVars, sentVars, drvVars>>

SpanCallEncompasses ==
    /\ span_pc = "ops"
    /\ span_ret' = [op |-> "encompasses",
                    val |-> encompasses(span_self.s, span_that.s)]
    /\ UNCHANGED <<span_pc, span_self, span_that, prVars, sentVars, drvVars>>

(***************************************************************************)
(* PRCounter                                                               *)
(***************************************************************************)
\* rows whose value carries a total N (isinstance(v[0], int)); the other
\* rows have N = '' and T = None, modelled as a row without fields T and N
SizedLabels == {"Targets by token", "Frames (correct targets only)"}

\* PRCounter.__init__: a table without rows
EmptyDF == [row \in {} |-> [Numer |-> 0]]

\* a T computed without the branch for |gold| = |pred| = N
EntryTNoExactCase(N, gold_set, pred_set) ==
    N - Cardinality(pred_set \ gold_set) - Cardinality(gold_set \ pred_set)

\* the T of a sized row, lines 68-74
EntryT(N, gold_set, pred_set) ==
    IF Cardinality(gold_set) = N /\ Cardinality(pred_set) = N
    THEN Cardinality(gold_set \cap pred_set)
    ELSE LET fp == Cardinality(pred_set \ gold_set)
             fn == Cardinality(gold_set \ pred_set)
         IN  N - fp - fn

\* the count columns of the row __setitem__ builds
Entry(sized, N, gold_set, pred_set) ==
    LET counts == [Numer |-> Cardinality(gold_set \cap pred_set),
                   PDenom |-> Cardinality(pred_set),
                   RDenom |-> Cardinality(gold_set)]
    IN  IF sized
        THEN [Numer |-> counts.Numer, PDenom |-> counts.PDenom,
              RDenom |-> counts.RDenom,
              T |-> EntryT(N, gold_set, pred_set), N |-> N]
        ELSE counts

\* the two assertions of __setitem__: N > 0 when a set is non-empty, T >= 0
SetItemAsserts(sized, N, gold_set, pred_set) ==
    /\ sized => ((gold_set # {} \/ pred_set # {}) => N > 0)
    /\ sized => EntryT(N, gold_set, pred_set) >= 0

\* PRCounter.__setitem__(k, v) on the table df: [exc |-> TRUE] when an
\* assertion fails, else the table with the row appended
SetItem(df, k, sized, N, gold_set, pred_set) ==
    IF ~SetItemAsserts(sized, N, gold_set, pred_set)
    THEN [exc |-> TRUE, df |-> df]
    ELSE [exc |-> FALSE, df |-> df @@ (k :> Entry(sized, N, gold_set, pred_set))]

\* a filler that copies the present row instead of zeroing it
FillerCopiesRow(row) == row

\* the row appended for a label the other table lacks: '' where the
\* present row has '', else 0
Filler(row) == [e \in DOMAIN row |-> 0]

\* an addition that keeps only the rows both tables have
AddTablesCommonRows(self, that) ==
    [row \in DOMAIN self \cap DOMAIN that |->
        [e \in DOMAIN self[row] |-> self[row][e] + that[row][e]]]

\* PRCounter.__add__: fill the missing rows, add the counts
AddTables(self, that) ==
    LET you1 == [row \in DOMAIN that \cup DOMAIN self |->
                    IF row \in DOMAIN that THEN that[row] ELSE Filler(self[row])]
        me1 == [row \in DOMAIN self \cup DOMAIN you1 |->
                    IF row \in DOMAIN self THEN self[row] ELSE Filler(you1[row])]
    IN  [row \in DOMAIN me1 |->
            [e \in DOMAIN me1[row] |-> me1[row][e] + you1[row][e]]]

(***************************************************************************)
(* The PRCounter scenario: two tables get a sized and an unsized row each  *)
(* (or not), then they are added.                                          *)
(***************************************************************************)
Items == {"x", "y"}
NoCall == [tbl |-> "", k |-> "", N |-> 0, gold_set |-> {}, pred_set |-> {},
           exc |-> FALSE]

PRStart ==
    /\ pr_pc = "me1"
    /\ me = EmptyDF
    /\ you = EmptyDF
    /\ new_df = EmptyDF
    /\ pr_last = NoCall

PRNextPc(pc) ==
    CASE pc = "me1" -> "me2"
      [] pc = "me2" -> "you1"
      [] pc = "you1" -> "you2"
      [] pc = "you2" -> "add"

PRLabel(pc) ==
    IF pc \in {"me1", "you1"} THEN "Targets by token" ELSE "Targets by span"

PRSetItem ==
    /\ pr_pc \in {"me1", "me2", "you1", "you2"}
    /\ \E N \in (-1)..MaxN, gold_set \in SUBSET Items, pred_set \in SUBSET Items :
        LET k == PRLabel(pr_pc)
            sized == k \in SizedLabels
            df == IF pr_pc \in {"me1", "me2"} THEN me ELSE you
            r == SetItem(df, k, sized, N, gold_set, pred_set)
        IN  /\ sized \/ N = 0
            /\ pr_last' = [tbl |-> IF pr_pc \in {"me1", "me2"} THEN "me" ELSE "you",
                           k |-> k, N |-> N, gold_set |-> gold_set,
                           pred_set |-> pred_set, exc |-> r.exc]
            /\ pr_pc' = IF r.exc THEN "raised" ELSE PRNextPc(pr_pc)
            /\ IF pr_pc \in {"me1", "me2"}
               THEN me' = r.df /\ UNCHANGED you
               ELSE you' = r.df /\ UNCHANGED me
    /\ UNCHANGED <<new_df, spanVars, sentVars, drvVars>>

\* a sentence that recorded no such row
PRSkip ==
    /\ pr_pc \in {"me1", "me2", "you1", "you2"}
    /\ pr_pc' = PRNextPc(pr_pc)
    /\ pr_last' = NoCall
    /\ UNCHANGED <<me, you, new_df, spanVars, sentVars, drvVars>>

PRAdd ==
    /\ pr_pc = "add"
    /\ new_df' = AddTables(me, you)
    /\ pr_pc' = "done"
    /\ UNCHANGED <<me, you, pr_last, spanVars, sentVars, drvVars>>

(***************************************************************************)
(* Indexing a sentence by span                                             *)
(***************************************************************************)
\* Python's None, as the value of a missing frame name
None == "None"

\* bool(v) of a frame name: None and the empty string are false
Truthy(v) == v # None /\ v # ""

\* str.lower() on the entity types and texts of the model's sentences
Lower(str) ==
    CASE str = "WEA" -> "wea"
      [] str = "DATE" -> "date"
      [] str = "PERSON" -> "person"
      [] str = "Monday" -> "monday"
      [] str = "May" -> "may"
      [] OTHER -> str

\* str.upper() on the part-of-speech tags of the model's sentences
Upper(str) ==
    CASE str = "nns" -> "NNS"
      [] str = "vbp" -> "VBP"
      [] str = "md" -> "MD"
      [] OTHER -> str

\* DATE_NAMES: the day and month names, then for each its first three
\* letters and those followed by '.'
DATE_NAMES ==
    {"monday", "tuesday", "wednesday", "thursday", "friday", "saturday",
     "sunday", "january", "february", "march", "april", "may", "june",
     "july", "august", "september", "october", "november", "december"}
    \cup {"mon", "tue", "wed", "thu", "fri", "sat", "sun", "jan", "feb",
          "mar", "apr", "may", "jun", "jul", "aug", "sep", "oct", "nov", "dec"}
    \cup {"mon.", "tue.", "wed.", "thu.", "fri.", "sat.", "sun.", "jan.",
          "feb.", "mar.", "apr.", "may.", "jun.", "jul.", "aug.", "sep.",
          "oct.", "nov.", "dec."}

\* d[k] = v on a dict
DictPut(d, k, v) == [x \in DOMAIN d \cup {k} |-> IF x = k THEN v ELSE d[x]]

\* d.items()
DictItems(d) == {<<k, d[k]>> : k \in DOMAIN d}

\* the dict without the keys outside keep (the del loops)
DictRestrict(d, keep) == [k \in DOMAIN d \cap keep |-> d[k]]

EmptyDict == [k \in {} |-> None]

\* [i for sp in element['spans'] for i in [sp['start'], sp['end']]]
RECURSIVE FlattenSpans(_)
FlattenSpans(spans) ==
    IF spans = <<>> THEN <<>>
    ELSE <<Head(spans).start, Head(spans).end>> \o FlattenSpans(Tail(spans))

\* span_from_element: the list _s of the Span built from the element's spans
span_from_element(element) == SpanInit(FlattenSpans(element.spans)).s

\* {span_from_element(fe): fe['name'] for fe in frameElements}
RECURSIVE FrameElementMap(_, _)
FrameElementMap(frameElements, d) ==
    IF frameElements = <<>> THEN d
    ELSE FrameElementMap(Tail(frameElements),
             DictPut(d, span_from_element(Head(frameElements)),
                     Head(frameElements).name))

\* the loop of get_predictions_by_span; acc holds its three results
RECURSIVE PredictionsLoop(_, _)
PredictionsLoop(frames, acc) ==
    IF frames = <<>> THEN acc
    ELSE LET frame == Head(frames)
             target_span == span_from_element(frame.target)
             name == IF "name" \in DOMAIN frame.target
                     THEN frame.target.name ELSE None
             args == IF "annotationSets" \in DOMAIN frame
                     THEN FrameElementMap(frame.annotationSets[1].frameElements,
                                          EmptyDict)
                     ELSE EmptyDict
         IN  PredictionsLoop(Tail(frames),
                 [target_coverage |-> acc.target_coverage \cup IndexSet(target_span),
                  frame_names |-> DictPut(acc.frame_names, target_span, name),
                  arguments |-> DictPut(acc.arguments, target_span, args)])

get_predictions_by_span(frames) ==
    PredictionsLoop(frames, [target_coverage |-> {}, frame_names |-> EmptyDict,
                             arguments |-> EmptyDict])

\* {Span(entry['start'], entry['end']): (entry['name'].lower(), entry['text'])}
RECURSIVE TypedSpanMap(_, _)
TypedSpanMap(entries, d) ==
    IF entries = <<>> THEN d
    ELSE LET entry == Head(entries)
         IN  TypedSpanMap(Tail(entries),
                 DictPut(d, SpanInit(<<entry.start, entry.end>>).s,
                         <<Lower(entry.name), entry.text>>))

\* {Span(entry['start'], entry['end']): entry['name'].upper()}
RECURSIVE PosMap(_, _)
PosMap(entries, d) ==
    IF entries = <<>> THEN d
    ELSE LET entry == Head(entries)
         IN  PosMap(Tail(entries),
                 DictPut(d, SpanInit(<<entry.start, entry.end>>).s,
                         Upper(entry.name)))

\* an exclusion that spares no named-entity type
get_non_targets_all_ner(gold_sentence) ==
    LET wsl == TypedSpanMap(gold_sentence.wsl, EmptyDict)
        ner == TypedSpanMap(gold_sentence.ner, EmptyDict)
        poses == PosMap(gold_sentence.pos, EmptyDict)
    IN  [wsl |-> wsl, excluded_spans |-> DOMAIN wsl \cup DOMAIN ner,
         poses |-> poses]

get_non_targets(gold_sentence) ==
    LET wsl == TypedSpanMap(gold_sentence.wsl, EmptyDict)
        ner == TypedSpanMap(gold_sentence.ner, EmptyDict)
        poses == PosMap(gold_sentence.pos, EmptyDict)
        excluded_ner_spans ==
            {sp \in DOMAIN ner :
                /\ ner[sp][1] # "wea"
                /\ ~(ner[sp][1] = "date" /\ Lower(ner[sp][2]) \in DATE_NAMES)}
    IN  [wsl |-> wsl, excluded_spans |-> DOMAIN wsl \cup excluded_ner_spans,
         poses |-> poses]

(***************************************************************************)
(* score_sentence                                                          *)
(***************************************************************************)
\* the indices a Span iterates over, in iteration order
RECURSIVE IndexSeq(_)
IndexSeq(s) ==
    IF s = <<>> THEN <<>>
    ELSE LET start == Head(s)[1]
             stop == Head(s)[2]
         IN  [i \in 1..(IF stop > start THEN stop - start ELSE 0) |-> start + i - 1]
             \o IndexSeq(Tail(s))

\* ' '.join(words)
RECURSIVE JoinWords(_)
JoinWords(words) ==
    IF words = <<>> THEN ""
    ELSE IF Len(words) = 1 THEN words[1]
    ELSE words[1] \o " " \o JoinWords(Tail(words))

\* Span.__call__(sequence, str) raises IndexError past the end of the list
CallRaises(sp, tokens) == \E i \in IndexSet(sp) : i >= Len(tokens)

\* Span.__call__(sequence, str)
SpanText(sp, tokens) ==
    JoinWords([j \in DOMAIN IndexSeq(sp) |-> tokens[IndexSeq(sp)[j] + 1]])

\* counter[key] += 1
CounterInc(counter, key) ==
    [k \in DOMAIN counter \cup {key} |->
        (IF k \in DOMAIN counter THEN counter[k] ELSE 0) + (IF k = key THEN 1 ELSE 0)]

EmptyCounter == [k \in {} |-> 0]

\* a tally that forgets the part-of-speech key of a single-token span
TallySpanTextOnly(counter, sp, tokens, poses) ==
    IF SpanLen(sp) = 1
    THEN LET pos == IF sp \in DOMAIN poses THEN poses[sp] ELSE "?"
         IN  CounterInc(counter, SpanText(sp, tokens) \o "_" \o pos)
    ELSE CounterInc(counter, SpanText(sp, tokens))

\* the body of the two error loops for one span
TallySpan(counter, sp, tokens, poses) ==
    IF SpanLen(sp) = 1
    THEN LET pos == IF sp \in DOMAIN poses THEN poses[sp] ELSE "?"
         IN  CounterInc(CounterInc(counter, pos), SpanText(sp, tokens) \o "_" \o pos)
    ELSE CounterInc(counter, SpanText(sp, tokens))

\* for sp in spans: tally it
RECURSIVE TallySpans(_, _, _, _)
TallySpans(counter, spans, tokens, poses) ==
    IF spans = {} THEN counter
    ELSE LET sp == CHOOSE x \in spans : TRUE
         IN  TallySpans(TallySpan(counter, sp, tokens, poses), spans \ {sp},
                        tokens, poses)

\* the loop over gold['frames']
RECURSIVE GoldLoop(_, _, _)
GoldLoop(frames, wsl, acc) ==
    IF frames = <<>> THEN acc
    ELSE LET frame == Head(frames)
             target == frame.target
             target_span == span_from_element(target)
         IN  GoldLoop(Tail(frames), wsl,
                 [gold_target_spans |-> acc.gold_target_spans \cup {target_span},
                  gold_frame_target_coverage |->
                      acc.gold_frame_target_coverage \cup IndexSet(target_span),
                  gold_frames |-> DictPut(acc.gold_frames, target_span, target.name),
                  gold_args |->
                      DictPut(acc.gold_args, target_span,
                          FrameElementMap(frame.annotationSets[1].frameElements,
                                          EmptyDict)),
                  excluded_spans |->
                      IF target_span \in acc.excluded_spans /\ target_span \in DOMAIN wsl
                      THEN acc.excluded_spans \ {target_span}
                      ELSE acc.excluded_spans])

\* set((tspan, arg) for tspan, args in d.items() for arg in args)
ArgSpans(d) == UNION {{<<tspan, arg>> : arg \in DOMAIN d[tspan]} : tspan \in DOMAIN d}

\* set((tspan,) + arg for tspan, args in d.items() for arg in args.items())
ArgsLabeled(d) ==
    UNION {{<<tspan, arg, d[tspan][arg]>> : arg \in DOMAIN d[tspan]} : tspan \in DOMAIN d}

\* the rows recorded when some frame name was predicted, lines 329-363
FrameAndArgumentRows(df, gold_frames, pred_frames, gold_args, pred_args) ==
    LET correct_target_spans == DOMAIN gold_frames \cap DOMAIN pred_frames
        df3 == SetItem(df, "Frames with correct targets (ignore P)", FALSE, 0,
                       DictItems(gold_frames), DictItems(pred_frames)).df
        gold_frames2 == DictRestrict(gold_frames, correct_target_spans)
        pred_frames2 == DictRestrict(pred_frames, correct_target_spans)
        asserted ==
            /\ Cardinality(DOMAIN gold_frames2) = Cardinality(DOMAIN pred_frames2)
            /\ Cardinality(DOMAIN pred_frames2) = Cardinality(correct_target_spans)
        r4 == SetItem(df3, "Frames (correct targets only)", TRUE,
                      Cardinality(correct_target_spans),
                      DictItems(gold_frames2), DictItems(pred_frames2))
        gold_args2 == DictRestrict(gold_args, correct_target_spans)
        pred_args2 == DictRestrict(pred_args, correct_target_spans)
        df5 == SetItem(r4.df, "Argument spans with correct targets", FALSE, 0,
                       ArgSpans(gold_args), ArgSpans(pred_args)).df
        df6 == SetItem(df5, "Arguments, labeled, with correct targets", FALSE, 0,
                       ArgsLabeled(gold_args), ArgsLabeled(pred_args)).df
        df7 == SetItem(df6, "Argument spans (correct targets only)", FALSE, 0,
                       ArgSpans(gold_args2), ArgSpans(pred_args2)).df
        df8 == SetItem(df7, "Arguments, labeled (correct targets only)", FALSE, 0,
                       ArgsLabeled(gold_args2), ArgsLabeled(pred_args2)).df
    IN  IF ~asserted \/ r4.exc THEN [exc |-> TRUE, df |-> df]
        ELSE IF \E tspan \in DOMAIN pred_args : DOMAIN pred_args[tspan] # {}
        THEN [exc |-> FALSE, df |-> df8]
        ELSE [exc |-> FALSE, df |-> r4.df]

\* a gate that lets every sentence through
SomeFramePredictedAlways(pred_frames) == TRUE

\* any(pred_frames.values())
SomeFramePredicted(pred_frames) ==
    \E sp \in DOMAIN pred_frames : Truthy(pred_frames[sp])

\* score_sentence(gold, predicted, errors): exc names the exception that
\* ended it ("" when it returned), stats is the table it returned, errors
\* the inventory as it left it; the other fields are its local variables
\* when rows 'Targets by token' and 'Targets by span' are recorded
score_sentence(gold, predicted, errors) ==
    LET num_tokens == Len(gold.tokens)
        preds == get_predictions_by_span(predicted.frames)
        pred_frames == preds.frame_names
        pred_args == preds.arguments
        non == get_non_targets(gold)
        looped == GoldLoop(gold.frames, non.wsl,
                      [gold_target_spans |-> {}, gold_frame_target_coverage |-> {},
                       gold_frames |-> EmptyDict, gold_args |-> EmptyDict,
                       excluded_spans |-> non.excluded_spans])
        gold_target_coverage ==
            (0..(num_tokens - 1)) \ UNION {IndexSet(span) : span \in looped.excluded_spans}
        gold_target_spans ==
            looped.gold_target_spans \cup
                {SpanInit(<<tkn, tkn + 1>>).s :
                    tkn \in gold_target_coverage \ looped.gold_frame_target_coverage}
        r1 == SetItem(EmptyDF, "Targets by token", TRUE, num_tokens,
                      gold_target_coverage, preds.target_coverage)
        df2 == SetItem(r1.df, "Targets by span", FALSE, 0,
                       gold_target_spans, DOMAIN pred_frames).df
        missed == gold_target_spans \ DOMAIN pred_frames
        extra == DOMAIN pred_frames \ gold_target_spans
        errors2 == [miss |-> TallySpans(errors.miss, missed, gold.tokens, non.poses),
                    extra |-> TallySpans(errors.extra, extra, gold.tokens, non.poses)]
        rest == IF SomeFramePredicted(pred_frames)
                THEN FrameAndArgumentRows(df2, looped.gold_frames, pred_frames,
                                          looped.gold_args, pred_args)
                ELSE [exc |-> FALSE, df |-> df2]
        locals == [gold_target_spans |-> gold_target_spans,
                   gold_target_coverage |-> gold_target_coverage,
                   excluded_spans |-> looped.excluded_spans,
                   gold_frames |-> looped.gold_frames,
                   pred_frames |-> pred_frames,
                   pred_args |-> pred_args,
                   pred_target_coverage |-> preds.target_coverage,
                   poses |-> non.poses]
        failed(name) == [exc |-> name, stats |-> EmptyDF, errors |-> errors,
                         locals |-> locals]
    IN  IF r1.exc THEN failed("AssertionError")
        ELSE IF \E sp \in missed \cup extra : CallRaises(sp, gold.tokens)
        THEN failed("IndexError")
        ELSE IF rest.exc THEN failed("AssertionError")
        ELSE [exc |-> "", stats |-> rest.df, errors |-> errors2, locals |-> locals]

(***************************************************************************)
(* Sentences of the model                                                  *)
(***************************************************************************)
Words == <<"guns", "may", "fire", "Monday">>
PosTags == <<"nns", "md", "vbp", "nnp">>

Word(i) == IF i <= Len(Words) THEN Words[i] ELSE "again"
PosTag(i) == IF i <= Len(PosTags) THEN PosTags[i] ELSE "rb"

\* the tokens of the sentence of n tokens
TokensOf(n) == [i \in 1..n |-> Word(i)]

\* its 'pos' entries: every token but the second has one
PosOf(n) ==
    LET tagged == IF n >= 2 THEN <<0>> \o [i \in 1..(n - 2) |-> i + 1]
                  ELSE [i \in 1..n |-> i - 1]
    IN  [j \in DOMAIN tagged |->
            [start |-> tagged[j], end |-> tagged[j] + 1, name |-> PosTag(tagged[j] + 1)]]

\* the 'spans' lists of one range inside a sentence of n tokens
RangeElements(n) ==
    {<<[start |-> r[1], end |-> r[2]]>> :
        r \in {q \in (0..(n - 1)) \X (1..n) : q[1] < q[2]}}

\* the 'spans' lists of two single tokens (adjacent ones fuse into one range)
SplitElements(n) ==
    {<<[start |-> r[1], end |-> r[1] + 1], [start |-> r[2], end |-> r[2] + 1]>> :
        r \in {q \in (0..(n - 1)) \X (0..(n - 1)) : q[1] < q[2]}}

FirstTokenArgument == [spans |-> <<[start |-> 0, end |-> 1]>>, name |-> "Agent"]

\* a gold frame: a target with a name, and a first annotation set
GoldFrame(spans, fes) ==
    [target |-> [spans |-> spans, name |-> "A"],
     annotationSets |-> <<[frameElements |-> fes]>>]

\* predicted frames: a bare target, a named target, a named target with a
\* first annotation set
PredTarget(spans) == [target |-> [spans |-> spans]]
PredNamed(spans, name) == [target |-> [spans |-> spans, name |-> name]]
PredAnnotated(spans, name, fes) ==
    [target |-> [spans |-> spans, name |-> name],
     annotationSets |-> <<[frameElements |-> fes]>>]

GoldFrames(n) ==
    {GoldFrame(spans, fes) :
        spans \in RangeElements(n) \cup SplitElements(n),
        fes \in {<<>>, <<FirstTokenArgument>>}}

\* predicted targets lie inside the sentence or on the token after its last
PredFrames(n) ==
    LET targets == RangeElements(n) \cup {<<[start |-> n, end |-> n + 1]>>}
    IN  {PredTarget(spans) : spans \in targets}
        \cup {PredNamed(spans, "A") : spans \in targets}
        \cup {PredAnnotated(spans, "B", <<>>) : spans \in targets}
        \cup {PredAnnotated(spans, "A", <<FirstTokenArgument>>) : spans \in targets}

\* 'wsl' lists: none, the first token, or the whole sentence
WslLists(n) ==
    {<<>>} \cup
    {<<[start |-> 0, end |-> j, name |-> "MWE", text |-> "guns"]>> : j \in {1, n} \ {0}}

\* 'ner' lists: none, or one entity on the last token
NerLists(n) ==
    {<<>>} \cup
    {<<[start |-> n - 1, end |-> n, name |-> ty[1], text |-> ty[2]]>> :
        ty \in IF n = 0 THEN {}
               ELSE {<<"WEA", "guns">>, <<"DATE", "Monday">>, <<"DATE", "2024">>,
                     <<"PERSON", "May">>}}

GoldSentence(n, frames, wsl, ner) ==
    [tokens |-> TokensOf(n), frames |-> frames, wsl |-> wsl, ner |-> ner,
     pos |-> PosOf(n)]

PredSentence(frames) == [frames |-> frames]

NoErrors == [miss |-> EmptyCounter, extra |-> EmptyCounter]

(***************************************************************************)
(* The one-sentence scenario: a sentence pair of the model is read, then   *)
(* score_sentence scores it with a fresh error inventory.                  *)
(***************************************************************************)
NoSentence == [tokens |-> <<>>, frames |-> <<>>, wsl |-> <<>>, ner |-> <<>>,
               pos |-> <<>>]
NoOut == [exc |-> "", stats |-> EmptyDF, errors |-> NoErrors]

SentStart ==
    /\ sent_pc = "new"
    /\ sent_gold = NoSentence
    /\ sent_pred = PredSentence(<<>>)
    /\ sent_out = NoOut

\* the lists of exactly n elements of S
SeqsOfLen(S, n) == {q \in SeqsUpTo(S, n) : Len(q) = n}

\* how many gold frames, predicted frames, wsl entries and ner entries
AnnotationCounts ==
    {c \in (0..MaxAnnotations) \X (0..MaxAnnotations) \X (0..1) \X (0..1) :
        c[1] + c[2] + c[3] + c[4] <= MaxAnnotations}

\* json.loads of a gold line and a predicted line
ReadSentencePair ==
    /\ sent_pc = "new"
    /\ \E n \in 0..MaxTokens, c \in AnnotationCounts :
        \E gframes \in SeqsOfLen(GoldFrames(n), c[1]),
           pframes \in SeqsOfLen(PredFrames(n), c[2]),
           wsl \in {w \in WslLists(n) : Len(w) = c[3]},
           ner \in {e \in NerLists(n) : Len(e) = c[4]} :
            /\ sent_gold' = GoldSentence(n, gframes, wsl, ner)
            /\ sent_pred' = PredSentence(pframes)
    /\ sent_pc' = "read"
    /\ UNCHANGED <<sent_out, spanVars, prVars, drvVars>>

ScoreSentence ==
    /\ sent_pc = "read"
    /\ sent_out' = score_sentence(sent_gold, sent_pred, NoErrors)
    /\ sent_pc' = "scored"
    /\ UNCHANGED <<sent_gold, sent_pred, spanVars, prVars, drvVars>>

(***************************************************************************)
(* The __main__ loop over a corpus of sentence pairs                       *)
(***************************************************************************)
Range(start, end) == <<[start |-> start, end |-> end]>>

SentencePair(gold, pred) == [gold |-> gold, pred |-> pred]

\* the line pairs the two input files may hold
Corpus ==
    {\* a target found, no frame name predicted: two rows
     SentencePair(GoldSentence(2, <<GoldFrame(Range(0, 1), <<>>)>>, <<>>, <<>>),
                  PredSentence(<<PredTarget(Range(0, 1))>>)),
     \* the right frame name, no arguments: four rows
     SentencePair(GoldSentence(2, <<GoldFrame(Range(0, 1), <<>>)>>, <<>>, <<>>),
                  PredSentence(<<PredNamed(Range(0, 1), "A")>>)),
     \* a wrong frame name on a correct target: four rows
     SentencePair(GoldSentence(1, <<GoldFrame(Range(0, 1), <<>>)>>, <<>>, <<>>),
                  PredSentence(<<PredAnnotated(Range(0, 1), "B", <<>>)>>)),
     \* frame and argument right: eight rows
     SentencePair(GoldSentence(2, <<GoldFrame(Range(0, 2), <<FirstTokenArgument>>)>>,
                               <<>>, <<>>),
                  PredSentence(<<PredAnnotated(Range(0, 2), "A",
                                               <<FirstTokenArgument>>)>>)),
     \* an argument on a wrong target: eight rows
     SentencePair(GoldSentence(2, <<GoldFrame(Range(0, 1), <<FirstTokenArgument>>)>>,
                               <<>>, <<>>),
                  PredSentence(<<PredAnnotated(Range(1, 2), "A",
                                               <<FirstTokenArgument>>)>>)),
     \* nothing annotated, nothing predicted
     SentencePair(GoldSentence(1, <<>>, <<>>, <<>>), PredSentence(<<>>)),
     \* a predicted target past the end of the sentence
     SentencePair(GoldSentence(1, <<>>, <<>>, <<>>),
                  PredSentence(<<PredTarget(Range(1, 2))>>)),
     \* a multiword expression over the whole sentence
     SentencePair(GoldSentence(2, <<>>,
                      <<[start |-> 0, end |-> 2, name |-> "MWE", text |-> "guns may"]>>,
                      <<>>),
                  PredSentence(<<PredTarget(Range(0, 1))>>)),
     \* an excluded entity, a wrong frame name and an extra bare target
     SentencePair(GoldSentence(2, <<GoldFrame(Range(0, 1), <<>>)>>, <<>>,
                      <<[start |-> 1, end |-> 2, name |-> "PERSON", text |-> "May"]>>),
                  PredSentence(<<PredNamed(Range(0, 1), "B"),
                                 PredTarget(Range(1, 2))>>)),
     \* an empty sentence
     SentencePair(GoldSentence(0, <<>>, <<>>, <<>>), PredSentence(<<>>))}

NoScores == <<>>

DriverStart ==
    /\ drv_pc = "loop"
    /\ scores = NoScores
    /\ all_errors = NoErrors
    /\ history = <<>>

\* one pass of the loop body: score the next line pair and merge its table
DriverStep ==
    /\ drv_pc = "loop"
    /\ Len(history) < MaxSentences
    /\ \E pair \in Corpus :
        \E sent_scores \in {score_sentence(pair.gold, pair.pred, all_errors)} :
            IF sent_scores.exc # ""
            THEN /\ drv_pc' = "raised"
                 /\ UNCHANGED <<scores, all_errors, history>>
            ELSE /\ scores' = IF scores = NoScores
                              THEN <<sent_scores.stats>>
                              ELSE <<AddTables(scores[1], sent_scores.stats)>>
                 /\ all_errors' = sent_scores.errors
                 /\ history' = Append(history, sent_scores.stats)
                 /\ UNCHANGED drv_pc
    /\ UNCHANGED <<spanVars, prVars, sentVars>>

\* the shorter file ends: print the errors and scores.to_string(), which
\* raises when scores is still None
DriverEnd ==
    /\ drv_pc = "loop"
    /\ drv_pc' = IF scores = NoScores THEN "raised" ELSE "done"
    /\ UNCHANGED <<scores, all_errors, history, spanVars, prVars, sentVars>>

(***************************************************************************)
(* Specifications                                                          *)
(***************************************************************************)
Init == SpanStart /\ PRStart /\ SentStart /\ DriverStart

NextSpan ==
    \/ SpanNew
    \/ SpanNewThat
    \/ SpanCallLt
    \/ SpanCallOverlapsPartially
    \/ SpanCallOverlaps
    \/ SpanCallEncompasses

SpecSpan == Init /\ [][NextSpan]_vars

NextPR ==
    \/ PRSetItem
    \/ PRSkip
    \/ PRAdd

SpecPR == Init /\ [][NextPR]_vars

NextSentence ==
    \/ ReadSentencePair
    \/ ScoreSentence

SpecSentence == Init /\ [][NextSentence]_vars

Next ==
    \/ DriverStep
    \/ DriverEnd

Spec == Init /\ [][Next]_vars

(***************************************************************************)
(* Span claims                                                             *)
(***************************************************************************)
\* C1: every Span the constructor returns without error stores its ranges
\* sorted by start, and consecutive stored ranges r1, r2 satisfy
\* r1.stop < r2.start (no two overlap or touch).
C1_StoredRangesSortedAndSeparated ==
    (span_pc # "new" /\ ~span_self.exc) =>
        \A i \in 1..(Len(span_self.s) - 1) :
            /\ span_self.s[i][1] <= span_self.s[i + 1][1]
            /\ span_self.s[i][2] < span_self.s[i + 1][1]

\* C7: overlaps_partially(other) is true if and only if the two index sets
\* intersect and neither index set contains the other.
C7_OverlapsPartiallyIffIntersectAndNeitherContains ==
    span_ret.op = "overlaps_partially" =>
        (span_ret.val <=>
            /\ (IndexSet(span_self.s) \cap IndexSet(span_that.s)) # {}
            /\ ~(IndexSet(span_self.s) \subseteq IndexSet(span_that.s))
            /\ ~(IndexSet(span_that.s) \subseteq IndexSet(span_self.s)))

LexLt(a, b) ==
    \/ minstart(a) < minstart(b)
    \/ (minstart(a) = minstart(b) /\ maxstop(a) < maxstop(b))

\* C8: a < b holds exactly when a.minstart < b.minstart, or
\* a.minstart = b.minstart and a.maxstop < b.maxstop; a < b and b < a never
\* both hold.
C8_LtIsLexicographic ==
    span_ret.op = "lt" =>
        /\ span_ret.val <=> LexLt(span_self.s, span_that.s)
        /\ ~(SpanLt(span_self.s, span_that.s) /\ SpanLt(span_that.s, span_self.s))

(***************************************************************************)
(* PRCounter claims                                                        *)
(***************************************************************************)
PRTable(name) == IF name = "me" THEN me ELSE you

ClaimedT(N, gold_set, pred_set) ==
    IF Cardinality(gold_set) = N /\ Cardinality(pred_set) = N
    THEN Cardinality(gold_set \cap pred_set)
    ELSE N - Cardinality(pred_set \ gold_set) - Cardinality(gold_set \ pred_set)

ClaimedRowStored ==
    LET row == PRTable(pr_last.tbl)[pr_last.k]
    IN  /\ row.Numer = Cardinality(pr_last.gold_set \cap pr_last.pred_set)
        /\ row.PDenom = Cardinality(pr_last.pred_set)
        /\ row.RDenom = Cardinality(pr_last.gold_set)
        /\ row.T = ClaimedT(pr_last.N, pr_last.gold_set, pr_last.pred_set)
        /\ row.N = pr_last.N

\* C2 as stated: set_row with a total N fails exactly when the T it computes
\* (Numer when |gold| = |pred| = N, else N - |pred - gold| - |gold - pred|)
\* is negative, and otherwise stores Numer, PDenom, RDenom and that T.
C2_FailsExactlyWhenTNegative ==
    pr_last.k \in SizedLabels =>
        /\ pr_last.exc <=>
              ClaimedT(pr_last.N, pr_last.gold_set, pr_last.pred_set) < 0
        /\ ~pr_last.exc => ClaimedRowStored

\* C2 amended: set_row with a total N fails exactly when the T it computes
\* is negative or N is not positive while gold or pred is non-empty, and
\* otherwise stores Numer, PDenom, RDenom and that T.
C2_FailsWhenTNegativeOrNNotPositive ==
    pr_last.k \in SizedLabels =>
        /\ pr_last.exc <=>
              \/ ClaimedT(pr_last.N, pr_last.gold_set, pr_last.pred_set) < 0
              \/ /\ pr_last.N <= 0
                 /\ (pr_last.gold_set # {} \/ pr_last.pred_set # {})
        /\ ~pr_last.exc => ClaimedRowStored

\* a sized row in the case |gold| = |pred| = N with gold # pred was stored
C2_Witness ==
    /\ pr_last.k \in SizedLabels
    /\ ~pr_last.exc
    /\ Cardinality(pr_last.gold_set) = pr_last.N
    /\ Cardinality(pr_last.pred_set) = pr_last.N
    /\ pr_last.gold_set # pr_last.pred_set
    /\ PRTable(pr_last.tbl)[pr_last.k].T = 0

\* the count of column e in row `row` of df, a missing row counting as zero
CountOrZero(df, row, e) == IF row \in DOMAIN df THEN df[row][e] ELSE 0

CountColumns(row) ==
    IF row \in SizedLabels THEN {"Numer", "PDenom", "RDenom", "T", "N"}
    ELSE {"Numer", "PDenom", "RDenom"}

\* C3: merge is row-wise addition of the base counts over the union of the
\* row labels, a row missing from one operand counting as zero; so merge is
\* commutative and associative on the counts, and merging a counter with
\* itself doubles every count.
C3_MergeIsRowwiseSum ==
    pr_pc = "done" =>
        /\ DOMAIN new_df = DOMAIN me \cup DOMAIN you
        /\ \A row \in DOMAIN new_df :
              /\ DOMAIN new_df[row] = CountColumns(row)
              /\ \A e \in CountColumns(row) :
                    new_df[row][e] = CountOrZero(me, row, e) + CountOrZero(you, row, e)
        /\ AddTables(you, me) = new_df
        /\ AddTables(AddTables(me, you), new_df) = AddTables(me, AddTables(you, new_df))
        /\ \A row \in DOMAIN me : \A e \in CountColumns(row) :
              AddTables(me, me)[row][e] = 2 * me[row][e]

\* two tables with different row sets and non-zero counts were merged
C3_Witness ==
    /\ pr_pc = "done"
    /\ DOMAIN me = {"Targets by token"}
    /\ DOMAIN you = {"Targets by token", "Targets by span"}
    /\ me["Targets by token"].T > 0
    /\ you["Targets by span"].Numer > 0
    /\ new_df["Targets by token"].N > me["Targets by token"].N

(***************************************************************************)
(* score_sentence claims                                                   *)
(***************************************************************************)
Returned == sent_pc = "scored" /\ sent_out.exc = ""

TargetRows == {"Targets by token", "Targets by span"}
FrameRows == {"Frames with correct targets (ignore P)",
              "Frames (correct targets only)"}
ArgumentRows == {"Argument spans with correct targets",
                 "Arguments, labeled, with correct targets",
                 "Argument spans (correct targets only)",
                 "Arguments, labeled (correct targets only)"}

HasName(frame) == "name" \in DOMAIN frame.target
HasArguments(frame) ==
    /\ "annotationSets" \in DOMAIN frame
    /\ frame.annotationSets[1].frameElements # <<>>

\* the frame listed last among those with the same target span as frames[i]
IsLastWithItsTarget(frames, i) ==
    \A j \in DOMAIN frames :
        span_from_element(frames[j].target) = span_from_element(frames[i].target)
            => j <= i

RowsWhen(named, withArguments) ==
    IF ~named THEN TargetRows
    ELSE IF ~withArguments THEN TargetRows \cup FrameRows
    ELSE TargetRows \cup FrameRows \cup ArgumentRows

RECURSIVE CounterTotal(_)
CounterTotal(counter) ==
    IF DOMAIN counter = {} THEN 0
    ELSE LET k == CHOOSE x \in DOMAIN counter : TRUE
         IN  counter[k] + CounterTotal([x \in DOMAIN counter \ {k} |-> counter[x]])

IsSingleToken(sp) == Cardinality(IndexSet(sp)) = 1

PosKey(sp) ==
    IF sp \in DOMAIN sent_out.locals.poses THEN sent_out.locals.poses[sp] ELSE "?"

TextKey(sp) ==
    IF IsSingleToken(sp)
    THEN SpanText(sp, sent_gold.tokens) \o "_" \o PosKey(sp)
    ELSE SpanText(sp, sent_gold.tokens)

\* how often the spans of the set are tallied under key k: once for each
\* span whose text key is k, once for each single-token span whose tag is k
TalliesUnder(spans, k) ==
    Cardinality({sp \in spans : TextKey(sp) = k})
        + Cardinality({sp \in spans : IsSingleToken(sp) /\ PosKey(sp) = k})

\* C5: each gold target span absent from the predicted target spans is
\* tallied once as a miss under its text key, each predicted target span
\* absent from the gold ones once as an extra, a single-token span once
\* more under its POS tag; so the miss total is RDenom - Numer of 'Targets
\* by span' plus the missed single-token spans, the extra total is
\* PDenom - Numer plus the extra single-token spans, and a span in both
\* sets changes neither counter.
C5_MissAndExtraTallies ==
    Returned =>
        LET gold_spans == sent_out.locals.gold_target_spans
            pred_spans == DOMAIN sent_out.locals.pred_frames
            missed == gold_spans \ pred_spans
            extra == pred_spans \ gold_spans
            row == sent_out.stats["Targets by span"]
            miss == sent_out.errors.miss
            ext == sent_out.errors.extra
        IN  /\ \A sp \in missed : TextKey(sp) \in DOMAIN miss
            /\ \A sp \in extra : TextKey(sp) \in DOMAIN ext
            /\ \A k \in DOMAIN miss : miss[k] = TalliesUnder(missed, k)
            /\ \A k \in DOMAIN ext : ext[k] = TalliesUnder(extra, k)
            /\ CounterTotal(miss) = (row.RDenom - row.Numer)
                   + Cardinality({sp \in missed : IsSingleToken(sp)})
            /\ CounterTotal(ext) = (row.PDenom - row.Numer)
                   + Cardinality({sp \in extra : IsSingleToken(sp)})

\* a sentence with a missed single-token span, an extra span and a span in
\* both sets was scored
C5_Witness ==
    /\ Returned
    /\ \E sp \in sent_out.locals.gold_target_spans \ DOMAIN sent_out.locals.pred_frames :
          IsSingleToken(sp)
    /\ DOMAIN sent_out.locals.pred_frames \ sent_out.locals.gold_target_spans # {}
    /\ DOMAIN sent_out.locals.pred_frames \cap sent_out.locals.gold_target_spans # {}
    /\ CounterTotal(sent_out.errors.miss) = 2

\* the spans of the gold frame targets, from the input
GoldFrameTargets ==
    {span_from_element(sent_gold.frames[i].target) : i \in DOMAIN sent_gold.frames}

\* the spans of the multiword expressions, from the input
WslSpans == {<<<<sent_gold.wsl[i].start, sent_gold.wsl[i].end>>>> : i \in DOMAIN sent_gold.wsl}

\* the spans of the named entities that are neither weapons nor dates named
\* by a day or month, from the input
ExcludedNerSpans ==
    {<<<<sent_gold.ner[i].start, sent_gold.ner[i].end>>>> :
        i \in {j \in DOMAIN sent_gold.ner :
                 /\ Lower(sent_gold.ner[j].name) # "wea"
                 /\ \/ Lower(sent_gold.ner[j].name) # "date"
                    \/ Lower(sent_gold.ner[j].text) \notin DATE_NAMES}}

\* the exclusion set after the multiword-expression special case
FinalExclusions == (WslSpans \cup ExcludedNerSpans) \ (GoldFrameTargets \cap WslSpans)

\* C6: the gold set of 'Targets by span' is the gold frame target spans plus
\* one singleton span [t, t+1) for every token t of the sentence that no
\* gold frame target covers and no span of the final exclusion set contains.
C6_GoldTargetSpans ==
    Returned =>
        LET covered == UNION {IndexSet(sp) : sp \in GoldFrameTargets}
            excluded == UNION {IndexSet(sp) : sp \in FinalExclusions}
            free == {tkn \in 0..(Len(sent_gold.tokens) - 1) :
                        tkn \notin covered /\ tkn \notin excluded}
        IN  /\ sent_out.locals.excluded_spans = FinalExclusions
            /\ sent_out.locals.gold_target_spans =
                   GoldFrameTargets \cup {<<<<tkn, tkn + 1>>>> : tkn \in free}
            /\ sent_out.stats["Targets by span"].RDenom =
                   Cardinality(GoldFrameTargets) + Cardinality(free)

\* a sentence was scored in which one token, free, became a singleton gold
\* target span and another, inside an excluded span, did not
C6_Witness ==
    /\ Returned
    /\ \E tkn \in 0..(Len(sent_gold.tokens) - 1) :
          <<<<tkn, tkn + 1>>>> \in sent_out.locals.gold_target_spans \ GoldFrameTargets
    /\ \E tkn \in 0..(Len(sent_gold.tokens) - 1) :
          /\ tkn \in UNION {IndexSet(sp) : sp \in FinalExclusions}
          /\ <<<<tkn, tkn + 1>>>> \notin sent_out.locals.gold_target_spans

\* every predicted target token index lies in [0, number of gold tokens)
PredictedTargetsInside ==
    \A i \in DOMAIN sent_pred.frames :
        \A j \in DOMAIN sent_pred.frames[i].target.spans :
            /\ 0 <= sent_pred.frames[i].target.spans[j].start
            /\ sent_pred.frames[i].target.spans[j].end <= Len(sent_gold.tokens)

\* C9: when all predicted target token indices lie inside the sentence,
\* score_sentence trips no assertion; 'Targets by token' has
\* T = N - false positives - false negatives >= 0; and a recorded 'Frames
\* (correct targets only)' row has PDenom = RDenom = N = the number of
\* correct target spans and T = Numer = the number of those whose predicted
\* name is the gold name.
C9_NoAssertionWhenPredictionsInside ==
    (sent_pc = "scored" /\ PredictedTargetsInside) =>
        /\ sent_out.exc # "AssertionError"
        /\ sent_out.exc = "" =>
            LET loc == sent_out.locals
                byToken == sent_out.stats["Targets by token"]
                correct == DOMAIN loc.gold_frames \cap DOMAIN loc.pred_frames
                frameRow == sent_out.stats["Frames (correct targets only)"]
            IN  /\ byToken.N = Len(sent_gold.tokens)
                /\ byToken.T = byToken.N
                      - Cardinality(loc.pred_target_coverage \ loc.gold_target_coverage)
                      - Cardinality(loc.gold_target_coverage \ loc.pred_target_coverage)
                /\ byToken.T >= 0
                /\ "Frames (correct targets only)" \in DOMAIN sent_out.stats =>
                      /\ frameRow.N = Cardinality(correct)
                      /\ frameRow.PDenom = frameRow.N
                      /\ frameRow.RDenom = frameRow.N
                      /\ frameRow.T = frameRow.Numer
                      /\ frameRow.Numer =
                            Cardinality({sp \in correct :
                                            loc.pred_frames[sp] = loc.gold_frames[sp]})

\* a sentence whose only correct target carries a wrong frame name was scored
C9_Witness ==
    /\ Returned
    /\ PredictedTargetsInside
    /\ "Frames (correct targets only)" \in DOMAIN sent_out.stats
    /\ sent_out.stats["Frames (correct targets only)"].N = 1
    /\ sent_out.stats["Frames (correct targets only)"].Numer = 0

(***************************************************************************)
(* __main__ loop claims                                                    *)
(***************************************************************************)
\* the sum of column e of row `row` over the tables of a list that have it
RECURSIVE SumOverSentences(_, _, _)
SumOverSentences(tables, row, e) ==
    IF tables = <<>> THEN 0
    ELSE CountOrZero(Head(tables), row, e) + SumOverSentences(Tail(tables), row, e)

\* C10: after any sequence of sentence pairs every row of the accumulated
\* table has Numer <= PDenom and Numer <= RDenom, every sized row has
\* 0 <= T <= N, and each count of a row is the sum of that count over the
\* sentences that recorded the row.
C10_AccumulatedTable ==
    scores # NoScores =>
        LET total == scores[1]
        IN  /\ DOMAIN total = UNION {DOMAIN history[i] : i \in DOMAIN history}
            /\ \A row \in DOMAIN total :
                  /\ total[row].Numer <= total[row].PDenom
                  /\ total[row].Numer <= total[row].RDenom
                  /\ row \in SizedLabels =>
                        (0 <= total[row].T /\ total[row].T <= total[row].N)
                  /\ DOMAIN total[row] = CountColumns(row)
                  /\ \A e \in CountColumns(row) :
                        total[row][e] = SumOverSentences(history, row, e)

\* a two-row sentence and an eight-row sentence were merged, in this order
C10_Witness ==
    /\ Len(history) = 2
    /\ DOMAIN history[1] = TargetRows
    /\ DOMAIN history[2] = TargetRows \cup FrameRows \cup ArgumentRows
    /\ scores # NoScores
    /\ scores[1]["Frames (correct targets only)"].N = 1
    /\ scores[1]["Targets by token"].N = 4

====
